---- MODULE Spec2Model ----
(***************************************************************************)
(* Roth Touchline integration: the XML codec (xml_parser.py), the device   *)
(* client (hub.py), the refresh coordinator (coordinator.py), the          *)
(* config-entry lifecycle (__init__.py) and the climate entities'          *)
(* service handlers (climate.py).                                          *)
(*                                                                         *)
(* Python values: None is the record [none |-> TRUE], an optional string   *)
(* or number is None or [some |-> v]; a dict is a function whose DOMAIN is *)
(* its key set; a list is a sequence.                                      *)
(***************************************************************************)
EXTENDS Integers, Sequences, FiniteSets, TLC

VARIABLES
    codecIn,      \* the name/value pairs handed to the codec
    codecOut,     \* what the codec returned for them (None before the call)
    mapperCall,   \* the last call of a mapper or request-builder function, with its result
    device,       \* the controller: [regs: register -> raw value, spelling]
    deviceChanges,\* how often the controller's registers changed during cycles
    now,          \* datetime.now(), a logical clock
    hubs,         \* the RothTouchlineHub objects created so far, by creation order
    hubLast,      \* the last call made on a hub by its client, with its outcome
    closeCalls,   \* how many times close() was called on hub 1
    entry,        \* ConfigEntry.data: [max_zones, update_interval]
    entryState,   \* where the config entry is in its lifecycle
    hassData,     \* hass.data[DOMAIN][entry_id]: None or [hub, coordinator]
    services,     \* whether the integration's two services are registered
    entities,     \* the zone ids the climate platform created entities for
    entityLast,   \* the last service call handled by a climate entity, or None
    coordinator,  \* the RothTouchlineDataUpdateCoordinator of the entry, or None
    cycle,        \* the refresh cycle: locals of _async_update_data and its record
    cycles,       \* timer-driven cycles started so far
    flow          \* the config flow's validate_input: None or [data, hub, pc, result]

hubVars == <<hubs, hubLast, closeCalls>>
codecVars == <<codecIn, codecOut, mapperCall>>
entryVars == <<entry, entryState, hassData, services, entities, entityLast,
              coordinator, cycle, cycles, flow>>
vars == <<codecIn, codecOut, mapperCall, device, deviceChanges, now, hubs, hubLast,
          closeCalls, entry, entryState, hassData, services, entities, entityLast,
          coordinator, cycle, cycles, flow>>

-----------------------------------------------------------------------------
(* Bounds *)

MaxPairs == 2          \* longest list of name/value pairs of a response
MaxZones == 2          \* largest configured max_zones (the program accepts 1..20)
MaxCloseCalls == 2     \* close() calls made on one hub
MaxHubs == 1           \* hubs created (set-up attempts of the entry)
MaxCycles == 2         \* timer-driven cycles after the first refresh
MaxItems == 3          \* longest list of items handed to create_request_xml
MaxDeviceChanges == 1  \* changes of the controller's registers while cycles run

-----------------------------------------------------------------------------
(* Python values *)

None == [none |-> TRUE]
Some(v) == [some |-> v]

\* bool(text) of an optional string: None and "" are falsy
TruthyText(t) == t # None /\ t.some # ""

\* d[k] = v on a dict
Put(d, k, v) == [x \in (DOMAIN d) \cup {k} |-> IF x = k THEN v ELSE d[x]]

EmptyDict == <<>>

\* bool(d) of a dict-or-None: None and {} are falsy
TruthyDict(d) == d # None /\ DOMAIN d # {}

-----------------------------------------------------------------------------
(* xml.etree.ElementTree as xml_parser.py uses it.  An element is a record *)
(* [tag, text, kids]; a response text is [wf, root]: wf says whether       *)
(* ET.fromstring accepts the text, root is the tree it then returns.       *)

Elem(tag, text, kids) == [tag |-> tag, text |-> text, kids |-> kids]

\* bool(element): an element is truthy iff it has children; bool(None) is False
TruthyElem(e) == e # None /\ Len(e.kids) > 0

\* Python's `a or b` on element-or-None operands
OrElem(a, b) == IF TruthyElem(a) THEN a ELSE b

\* Python's `a or b` on lists
OrList(a, b) == IF Len(a) > 0 THEN a ELSE b

\* element.find(tag): the first direct child with that tag, or None
find(e, tag) ==
    LET hits == SelectSeq(e.kids, LAMBDA k : k.tag = tag)
    IN  IF hits = <<>> THEN None ELSE Head(hits)

RECURSIVE Iter(_), IterKids(_)
\* element.iter(): the element and its descendants in document order
Iter(e) == <<e>> \o IterKids(e.kids)
IterKids(ks) == IF ks = <<>> THEN <<>> ELSE Iter(Head(ks)) \o IterKids(Tail(ks))

\* root.findall(".//tag"): the descendants of root with that tag, in document order
findall(root, tag) == SelectSeq(IterKids(root.kids), LAMBDA k : k.tag = tag)

\* the body of the `for item in ...` loop of parse_values_response
ParseItem(values, item) ==
    LET name_elem  == OrElem(find(item, "name"), find(item, "n"))
        value_elem == OrElem(find(item, "value"), find(item, "v"))
    IN  IF name_elem # None /\ value_elem # None
             /\ TruthyText(name_elem.text) /\ TruthyText(value_elem.text)
        THEN Put(values, name_elem.text.some, value_elem.text.some)
        ELSE values

RECURSIVE ParseItems(_, _)
ParseItems(values, items) ==
    IF items = <<>> THEN values
    ELSE ParseItems(ParseItem(values, Head(items)), Tail(items))

\* RothTouchlineXMLParser.parse_values_response
parse_values_response(response_text) ==
    IF ~response_text.wf
    THEN EmptyDict                       \* ET.ParseError is caught and logged
    ELSE ParseItems(EmptyDict,
                    OrList(findall(response_text.root, "item"),
                           findall(response_text.root, "i")))

-----------------------------------------------------------------------------
(* Response documents *)

\* the element names of the two spellings of a response
Tags(spelling) ==
    IF spelling = "long"
    THEN [item |-> "item", name |-> "name", value |-> "value"]
    ELSE [item |-> "i", name |-> "n", value |-> "v"]

\* <item><name>..</name><value>..</value></item> for one pair, in a spelling
PairElem(p, spelling) ==
    LET t == Tags(spelling)
    IN  Elem(t.item, None, << Elem(t.name, p.name, <<>>), Elem(t.value, p.value, <<>>) >>)

\* a well-formed response holding the pairs in order, in a spelling
ResponseDoc(pairs, spelling) ==
    [wf |-> TRUE,
     root |-> Elem("body", None,
                   << Elem("item_list", None,
                           [k \in 1..Len(pairs) |-> PairElem(pairs[k], spelling)]) >>)]

\* a response body that is not XML
MalformedDoc == [wf |-> FALSE, root |-> None]

-----------------------------------------------------------------------------
(* Zone mapper and request builder (xml_parser.py) *)

\* f"G{zone_num}"
ZoneId(zone_num) == "G" \o ToString(zone_num)

\* f"G{zone_num}.{field}" for a zone number given as a string
Register(zone_num_str, field) == "G" \o zone_num_str \o "." \o field

\* zone_id.replace("G", "") for the ids "G<n>" the program produces
ZoneNumStr(zone_id) ==
    CHOOSE s \in {ToString(n) : n \in 0..MaxZones} : "G" \o s = zone_id

\* float(s): the value in thousandths, or None where float() raises ValueError
Float(s) ==
    CASE s = "2050" -> Some(2050000)
      [] s = "2100" -> Some(2100000)
      [] s = "1900" -> Some(1900000)
      [] s = "20.5" -> Some(20500)
      [] OTHER      -> None

\* raw_temp / 100.0 on a value in thousandths (the values of Float are multiples of 100)
DivBy100(x) == x \div 100

\* the try/except around one temperature register of extract_zone_data
Temperature(values, key) ==
    IF key \in DOMAIN values /\ Float(values[key]) # None
    THEN Some(DivBy100(Float(values[key]).some))
    ELSE None

\* faulty variant of extract_zone_data: float() is not guarded per field, so
\* ValueError reaches the outer handler and the rest of the record is not filled
extract_zone_data_unguarded(values, zone_id, clock) ==
    LET zone_num == ZoneNumStr(zone_id)
        raum == Register(zone_num, "RaumTemp")
        soll == Register(zone_num, "SollTemp")
        name_key == Register(zone_num, "name")
        raum_raises == raum \in DOMAIN values /\ Float(values[raum]) = None
        soll_raises == soll \in DOMAIN values /\ Float(values[soll]) = None
    IN  [id |-> zone_id,
         name |-> IF ~raum_raises /\ ~soll_raises
                     /\ name_key \in DOMAIN values /\ values[name_key] # ""
                  THEN values[name_key] ELSE "Zone " \o zone_id,
         current_temperature |-> Temperature(values, raum),
         target_temperature |-> IF raum_raises THEN None ELSE Temperature(values, soll),
         timestamp |-> IF raum_raises \/ soll_raises THEN -1 ELSE clock,
         last_seen |-> IF raum_raises \/ soll_raises THEN -1 ELSE clock]

\* RothTouchlineXMLParser.extract_zone_data; temperatures in thousandths of a degree
extract_zone_data(values, zone_id, clock) ==
    LET zone_num == ZoneNumStr(zone_id)
        name_key == Register(zone_num, "name")
    IN  [id |-> zone_id,
         name |-> IF name_key \in DOMAIN values /\ values[name_key] # ""
                  THEN values[name_key] ELSE "Zone " \o zone_id,
         current_temperature |-> Temperature(values, Register(zone_num, "RaumTemp")),
         target_temperature |-> Temperature(values, Register(zone_num, "SollTemp")),
         timestamp |-> clock,
         last_seen |-> clock]

\* faulty variant: every zone of range(max_zones) is listed, present or not
ZoneNumsPresent_untested(values, max_zones) == [k \in 1..max_zones |-> k - 1]

\* faulty variant: the loop visits range(max_zones + 1)
ZoneNumsPresent_inclusive(values, max_zones) ==
    SelectSeq([k \in 1..(max_zones + 1) |-> k - 1],
              LAMBDA n : \/ Register(ToString(n), "RaumTemp") \in DOMAIN values
                         \/ Register(ToString(n), "SollTemp") \in DOMAIN values
                         \/ Register(ToString(n), "name") \in DOMAIN values)

\* the zone numbers range(max_zones) visits that have one of the three registers
ZoneNumsPresent(values, max_zones) ==
    SelectSeq([k \in 1..max_zones |-> k - 1],
              LAMBDA n : \/ Register(ToString(n), "RaumTemp") \in DOMAIN values
                         \/ Register(ToString(n), "SollTemp") \in DOMAIN values
                         \/ Register(ToString(n), "name") \in DOMAIN values)

\* faulty variant: an empty G<i>.name is replaced by the default as well
get_available_zones_truthy_name(values, max_zones) ==
    LET nums == ZoneNumsPresent(values, max_zones)
    IN  [k \in 1..Len(nums) |->
            [id |-> ZoneId(nums[k]),
             name |-> IF /\ Register(ToString(nums[k]), "name") \in DOMAIN values
                         /\ values[Register(ToString(nums[k]), "name")] # ""
                      THEN values[Register(ToString(nums[k]), "name")]
                      ELSE "Zone " \o ToString(nums[k]),
             number |-> nums[k]]]

\* RothTouchlineXMLParser.get_available_zones
get_available_zones(values, max_zones) ==
    LET nums == ZoneNumsPresent(values, max_zones)
    IN  [k \in 1..Len(nums) |->
            [id |-> ZoneId(nums[k]),
             name |-> IF Register(ToString(nums[k]), "name") \in DOMAIN values
                      THEN values[Register(ToString(nums[k]), "name")]
                      ELSE "Zone " \o ToString(nums[k]),
             number |-> nums[k]]]

\* the three registers requested for one zone
ZoneItems(zone_num_str) ==
    << Register(zone_num_str, "RaumTemp"),
       Register(zone_num_str, "SollTemp"),
       Register(zone_num_str, "name") >>

RECURSIVE AllZoneItems(_)
AllZoneItems(n) ==
    IF n = 0 THEN <<>> ELSE AllZoneItems(n - 1) \o ZoneItems(ToString(n - 1))

\* faulty variant of get_zone_request_items: the system status item is left out
get_zone_request_items_zones_only(max_zones) == AllZoneItems(max_zones)

\* RothTouchlineXMLParser.get_zone_request_items
get_zone_request_items(max_zones) == AllZoneItems(max_zones) \o <<"R0.SystemStatus">>

\* faulty variant of create_request_xml: each i element is inserted at the front
create_request_xml_prepending(items) ==
    [wf |-> TRUE,
     root |-> Elem("body", None,
                   << Elem("item_list", None,
                           [k \in 1..Len(items) |->
                               Elem("i", None,
                                    << Elem("n", Some(items[Len(items) + 1 - k]), <<>>) >>)]) >>)]

\* RothTouchlineXMLParser.create_request_xml: <body><item_list><i><n>item</n></i>...
create_request_xml(items) ==
    [wf |-> TRUE,
     root |-> Elem("body", None,
                   << Elem("item_list", None,
                           [k \in 1..Len(items) |->
                               Elem("i", None, << Elem("n", Some(items[k]), <<>>) >>)]) >>)]

\* ElementTree's escaping of character data, and its inverse in an XML reader
Escape(s) == IF s = "a&b" THEN "a&amp;b" ELSE s
Unescape(s) == IF s = "a&amp;b" THEN "a&b" ELSE s

RECURSIVE tostring(_), tostringKids(_)
\* ET.tostring(element, encoding="unicode") as the sequence of its markup
\* tokens; an element without text and children is written <tag />
tostring(e) ==
    IF ~TruthyText(e.text) /\ e.kids = <<>>
    THEN << [t |-> "empty", s |-> e.tag] >>
    ELSE << [t |-> "open", s |-> e.tag] >>
         \o (IF TruthyText(e.text) THEN << [t |-> "text", s |-> Escape(e.text.some)] >>
             ELSE <<>>)
         \o tostringKids(e.kids)
         \o << [t |-> "close", s |-> e.tag] >>
tostringKids(ks) ==
    IF ks = <<>> THEN <<>> ELSE tostring(Head(ks)) \o tostringKids(Tail(ks))

-----------------------------------------------------------------------------
(* The controller behind POST /cgi-bin/ILRReadValues.cgi *)

\* the register names a request asks for, in order
RequestedNames(xml_body) ==
    LET ns == findall(xml_body.root, "n")
    IN  [k \in 1..Len(ns) |-> ns[k].text.some]

\* the controller's reply to a request: the registers it has, in request order
DeviceAnswer(xml_body, dev) ==
    LET have == SelectSeq(RequestedNames(xml_body), LAMBDA r : r \in DOMAIN dev.regs)
    IN  ResponseDoc([k \in 1..Len(have) |->
                        [name |-> Some(have[k]), value |-> Some(dev.regs[have[k]])]],
                    dev.spelling)

StatusOK == 200

\* what one POST can end in: a status with a body, TimeoutError, ClientError
Responses(xml_body, dev) ==
    { [kind |-> "http", status |-> StatusOK, body |-> DeviceAnswer(xml_body, dev)],
      [kind |-> "http", status |-> StatusOK, body |-> MalformedDoc],
      [kind |-> "http", status |-> 500, body |-> MalformedDoc],
      [kind |-> "timeout"],
      [kind |-> "client_error"] }

\* a 200 answer whose bytes are no text in its charset: `await response.text()`
\* raises UnicodeDecodeError, which is neither TimeoutError nor ClientError
Undecodable == [kind |-> "undecodable", status |-> StatusOK]

DeviceRegs ==
    { [r \in {"G0.RaumTemp", "G0.SollTemp", "G0.name", "G1.name", "R0.SystemStatus"} |->
          CASE r = "G0.RaumTemp" -> "2050" [] r = "G0.SollTemp" -> "2100"
            [] r = "G0.name" -> "Office" [] r = "G1.name" -> "Bedroom" [] OTHER -> "0"],
      [r \in {"G0.RaumTemp", "G1.RaumTemp", "G1.SollTemp"} |->
          CASE r = "G0.RaumTemp" -> "abc" [] r = "G1.RaumTemp" -> "1900" [] OTHER -> "20.5"],
      [r \in {"G1.name"} |-> "Bedroom"] }

Devices == [regs : DeviceRegs, spelling : {"long", "short"}]

-----------------------------------------------------------------------------
(* RothTouchlineHub (hub.py) *)

Return(v) == [raised |-> FALSE, value |-> v]
Raise(e) == [raised |-> TRUE, exc |-> e]

\* aiohttp.ClientSession() of RothTouchlineHub.__init__
NewSession == [closed |-> FALSE, releases |-> 0]

\* the default of RothTouchlineHub.__init__'s max_zones parameter
HubDefaultMaxZones == 7

\* RothTouchlineHub.__init__
NewHub(max_zones) == [max_zones |-> max_zones, session |-> NewSession]

\* self._session.close(): aiohttp releases the connector unless already closed
SessionClose(session) ==
    [closed |-> TRUE,
     releases |-> IF session.closed THEN session.releases ELSE session.releases + 1]

\* faulty variant of close: the guard never holds and the session stays open
close_guard_never_true(hub) == hub

\* RothTouchlineHub.close: `if self._session:` holds for every ClientSession object
close(hub) == [hub EXCEPT !.session = SessionClose(hub.session)]

\* the request bodies the three calls post
TestConnectionRequest == create_request_xml(<<"G0.RaumTemp", "G0.SollTemp", "G0.name">>)
GetZonesRequest(hub) == create_request_xml(get_zone_request_items(hub.max_zones))
GetZoneDataRequest(zone_id) == create_request_xml(ZoneItems(ZoneNumStr(zone_id)))

\* faulty variant of test_connection: a status other than 200 raises
test_connection_strict(resp) ==
    IF resp.kind = "http" /\ resp.status = StatusOK THEN Return(TRUE)
    ELSE Raise("HomeAssistantError")

\* RothTouchlineHub.test_connection, given what the POST ended in
test_connection(resp) ==
    IF resp.kind = "timeout" THEN Raise("HomeAssistantError")
    ELSE IF resp.kind = "client_error" THEN Raise("HomeAssistantError")
    ELSE IF resp.status = StatusOK THEN Return(TRUE)
    ELSE Return(FALSE)

\* faulty variant of get_zones: a status other than 200 raises
get_zones_strict(hub, resp) ==
    IF resp.kind = "http" /\ resp.status = StatusOK
    THEN Return(get_available_zones(parse_values_response(resp.body), hub.max_zones))
    ELSE Raise("HomeAssistantError")

\* faulty variant of get_zones: the parser's ParseError is not caught and
\* leaves get_zones as an exception
get_zones_parse_error_escapes(hub, resp) ==
    IF resp.kind = "timeout" THEN Raise("HomeAssistantError")
    ELSE IF resp.kind = "client_error" THEN Raise("HomeAssistantError")
    ELSE IF resp.status # StatusOK THEN Return(<<>>)
    ELSE IF ~resp.body.wf THEN Raise("ParseError")
    ELSE Return(get_available_zones(parse_values_response(resp.body), hub.max_zones))

\* RothTouchlineHub.get_zones, given what the POST ended in
get_zones(hub, resp) ==
    IF resp.kind = "timeout" THEN Raise("HomeAssistantError")
    ELSE IF resp.kind = "client_error" THEN Raise("HomeAssistantError")
    ELSE IF resp.kind = "undecodable" THEN Raise("UnicodeDecodeError")
    ELSE IF resp.status = StatusOK
    THEN Return(get_available_zones(parse_values_response(resp.body), hub.max_zones))
    ELSE Return(<<>>)

\* faulty variant of get_zone_data: a timeout raises as it does in get_zones
get_zone_data_raising(zone_id, resp, clock) ==
    IF resp.kind = "timeout" THEN Raise("HomeAssistantError")
    ELSE IF resp.kind = "client_error" THEN Return(None)
    ELSE IF resp.status = StatusOK
    THEN Return(extract_zone_data(parse_values_response(resp.body), zone_id, clock))
    ELSE Return(None)

\* faulty variant of get_zone_data: a 200 answer holding no value gives None
get_zone_data_none_when_empty(zone_id, resp, clock) ==
    IF resp.kind = "timeout" THEN Return(None)
    ELSE IF resp.kind = "client_error" THEN Return(None)
    ELSE IF resp.status = StatusOK /\ parse_values_response(resp.body) # EmptyDict
    THEN Return(extract_zone_data(parse_values_response(resp.body), zone_id, clock))
    ELSE Return(None)

\* RothTouchlineHub.get_zone_data, given what the POST ended in
get_zone_data(zone_id, resp, clock) ==
    IF resp.kind = "timeout" THEN Return(None)
    ELSE IF resp.kind = "client_error" THEN Return(None)
    ELSE IF resp.kind = "undecodable" THEN Raise("UnicodeDecodeError")
    ELSE IF resp.status = StatusOK
    THEN Return(extract_zone_data(parse_values_response(resp.body), zone_id, clock))
    ELSE Return(None)

\* faulty variant of set_temperature: the write is implemented and succeeds
set_temperature_implemented(zone_id, temperature) == TRUE

\* RothTouchlineHub.set_temperature: not implemented, logs and returns False
set_temperature(zone_id, temperature) == FALSE

\* RothTouchlineHub.set_hvac_mode: not implemented, logs and returns False
set_hvac_mode(zone_id, mode) == FALSE

-----------------------------------------------------------------------------
(* RothTouchlineDataUpdateCoordinator (coordinator.py, const.py) *)

DEFAULT_UPDATE_INTERVAL == 30

\* const.UPDATE_INTERVAL = timedelta(seconds=DEFAULT_UPDATE_INTERVAL), in seconds
UPDATE_INTERVAL == DEFAULT_UPDATE_INTERVAL

\* RothTouchlineDataUpdateCoordinator.__init__ for the hub hubs[h]
NewCoordinator(h) ==
    [hub |-> h, update_interval |-> UPDATE_INTERVAL,
     data |-> None, last_update_success |-> TRUE]

\* no cycle has run yet
NoCycle ==
    [pc |-> "idle", first |-> FALSE, zones |-> <<>>, idx |-> 0, data |-> EmptyDict,
     ret |-> None, before |-> None, zonesResp |-> None, fetchResp |-> <<>>,
     fetched |-> <<>>, log |-> <<>>, result |-> "none", published |-> FALSE,
     afterFailure |-> FALSE, devs |-> {}, overlapped |-> FALSE, probe |-> None]

\* _async_update_data is entered and posts the get_zones request; the record
\* notes whether the coordinator's previous update had failed, and the
\* register states the controller is in while the cycle runs
StartCycle(before, first) ==
    [NoCycle EXCEPT !.pc = "get_zones", !.first = first, !.before = before,
                    !.log = << [ev |-> "send", op |-> "get_zones"] >>,
                    !.afterFailure = ~first /\ ~coordinator.last_update_success,
                    !.devs = {device.regs}]

\* faulty variant: the loop does not leave the zone it is at
NextIdx_stuck(zones, i) ==
    IF i > 0 THEN i
    ELSE LET later == {k \in 1..Len(zones) : zones[k].id # ""}
         IN  IF later = {} THEN 0 ELSE CHOOSE k \in later : \A j \in later : k <= j

\* the next index after i of `for zone in zones` whose id passes `if zone_id:`, or 0
NextIdx(zones, i) ==
    LET later == {k \in (i + 1)..Len(zones) : zones[k].id # ""}
    IN  IF later = {} THEN 0 ELSE CHOOSE k \in later : \A j \in later : k <= j

\* _async_update_data from the loop header on: request the next zone or return data
ContinueLoop(cy, data, i) ==
    LET next == NextIdx(cy.zones, i)
    IN  IF next = 0
        THEN [cy EXCEPT !.data = data, !.ret = Return(data)]
        ELSE [cy EXCEPT !.data = data, !.idx = next, !.pc = "get_zone_data",
                        !.log = Append(@, [ev |-> "send", op |-> cy.zones[next].id])]

\* faulty variant: a failed get_zones is swallowed and an empty dict returned
update_after_get_zones_swallowing(cy, outcome) ==
    IF outcome.raised
    THEN [cy EXCEPT !.ret = Return(EmptyDict)]
    ELSE ContinueLoop([cy EXCEPT !.zones = outcome.value], EmptyDict, 0)

\* faulty variant: an empty zone list is treated as a failed update
update_after_get_zones_empty_fails(cy, outcome) ==
    IF outcome.raised \/ outcome.value = <<>>
    THEN [cy EXCEPT !.ret = Raise("UpdateFailed")]
    ELSE ContinueLoop([cy EXCEPT !.zones = outcome.value], EmptyDict, 0)

\* _async_update_data resumed with the outcome of `await self.hub.get_zones()`:
\* `except Exception` turns what it raised into UpdateFailed
update_after_get_zones(cy, outcome) ==
    IF outcome.raised
    THEN [cy EXCEPT !.ret = Raise("UpdateFailed")]
    ELSE ContinueLoop([cy EXCEPT !.zones = outcome.value], EmptyDict, 0)

\* faulty variant of the loop body: zone_data is stored without `if zone_data:`
StoreZone_unchecked(data, zone_id, zone_data) == Put(data, zone_id, zone_data)

\* the loop body after `zone_data = await self.hub.get_zone_data(zone_id)`;
\* the timestamp is a datetime, which is truthy, so `or "Unknown"` never applies
StoreZone(data, zone_id, zone_data) ==
    IF TruthyDict(zone_data)
    THEN Put(data, zone_id, [zone_data EXCEPT !.last_seen = zone_data.timestamp])
    ELSE data

\* faulty variant: `return data` sits inside the loop
update_after_get_zone_data_early_return(cy, outcome) ==
    IF outcome.raised
    THEN [cy EXCEPT !.ret = Raise("UpdateFailed")]
    ELSE LET data == StoreZone(cy.data, cy.zones[cy.idx].id, outcome.value)
         IN  [cy EXCEPT !.data = data, !.ret = Return(data)]

\* faulty variant: only HomeAssistantError is turned into UpdateFailed, any
\* other exception leaves _async_update_data as it is
update_after_get_zone_data_unwrapped(cy, outcome) ==
    IF outcome.raised
    THEN [cy EXCEPT !.ret = Raise(IF outcome.exc = "HomeAssistantError"
                                  THEN "UpdateFailed" ELSE outcome.exc)]
    ELSE ContinueLoop(cy, StoreZone(cy.data, cy.zones[cy.idx].id, outcome.value), cy.idx)

\* _async_update_data resumed with the outcome of `await self.hub.get_zone_data(zone_id)`
update_after_get_zone_data(cy, outcome) ==
    IF outcome.raised
    THEN [cy EXCEPT !.ret = Raise("UpdateFailed")]
    ELSE ContinueLoop(cy, StoreZone(cy.data, cy.zones[cy.idx].id, outcome.value), cy.idx)

\* coordinator.async_request_refresh() called by an entity: _async_update_data
\* is entered at once, also while an earlier invocation is still awaiting
async_request_refresh(cy, data) ==
    IF cy.pc = "idle" THEN StartCycle(data, FALSE)
    ELSE [cy EXCEPT !.overlapped = TRUE]

\* DataUpdateCoordinator._async_refresh: what the coordinator holds after
\* _async_update_data returned or raised
Refreshed(co, ret) ==
    IF ret.raised
    THEN [co EXCEPT !.last_update_success = FALSE]
    ELSE [co EXCEPT !.data = ret.value, !.last_update_success = TRUE]

-----------------------------------------------------------------------------
(* Initial values of the parts a specification leaves alone *)

CodecUnused == codecIn = <<>> /\ codecOut = None /\ mapperCall = None

HubClientUnused == hubLast = None /\ closeCalls = 0

EntryUnused ==
    /\ entry = None
    /\ entryState = "not_loaded"
    /\ hassData = None
    /\ services = FALSE
    /\ entities = {}
    /\ entityLast = None
    /\ coordinator = None
    /\ cycle = NoCycle
    /\ cycles = 0
    /\ flow = None

-----------------------------------------------------------------------------
(* A hub driven directly by a client: any calls, then shutdown *)

HubInit ==
    /\ CodecUnused
    /\ EntryUnused
    /\ device \in Devices
    /\ deviceChanges = 0
    /\ now = 0
    /\ hubs \in {<<NewHub(m)>> : m \in 1..MaxZones}
    /\ hubLast = None
    /\ closeCalls = 0

HubTestConnection ==
    /\ ~hubs[1].session.closed
    /\ \E resp \in Responses(TestConnectionRequest, device) :
          hubLast' = [op |-> "test_connection", resp |-> resp,
                      outcome |-> test_connection(resp)]
    /\ UNCHANGED <<codecVars, entryVars, device, deviceChanges, now, hubs, closeCalls>>

HubGetZones ==
    /\ ~hubs[1].session.closed
    /\ \E resp \in Responses(GetZonesRequest(hubs[1]), device) :
          hubLast' = [op |-> "get_zones", request |-> GetZonesRequest(hubs[1]),
                      resp |-> resp, outcome |-> get_zones(hubs[1], resp)]
    /\ UNCHANGED <<codecVars, entryVars, device, deviceChanges, now, hubs, closeCalls>>

HubGetZoneData ==
    /\ ~hubs[1].session.closed
    /\ \E n \in 0..(MaxZones - 1) :
       \E resp \in Responses(GetZoneDataRequest(ZoneId(n)), device) :
          hubLast' = [op |-> "get_zone_data", zone_id |-> ZoneId(n), resp |-> resp,
                      outcome |-> get_zone_data(ZoneId(n), resp, now)]
    /\ UNCHANGED <<codecVars, entryVars, device, deviceChanges, now, hubs, closeCalls>>

HubClose ==
    /\ closeCalls < MaxCloseCalls
    /\ closeCalls' = closeCalls + 1
    /\ hubs' = [hubs EXCEPT ![1] = close(hubs[1])]
    /\ UNCHANGED <<codecVars, entryVars, device, deviceChanges, now, hubLast>>

HubNext == HubTestConnection \/ HubGetZones \/ HubGetZoneData \/ HubClose

SpecHub == HubInit /\ [][HubNext]_vars

\* the POST ended in a status other than 200
NonOK(resp) == resp.kind = "http" /\ resp.status # StatusOK

\* the POST ended in a timeout or a transport failure
Unreachable(resp) == resp.kind \in {"timeout", "client_error"}

\* hub 1's aiohttp session
Session1 == hubs[1].session

\* C2: whatever calls were made and however they ended, the hub's session is
\* not released before close() is called, is released by close(), and is
\* released once only however often close() is repeated.
C2_SessionReleasedOnce ==
    /\ closeCalls = 0 => (~Session1.closed /\ Session1.releases = 0)
    /\ closeCalls > 0 => (Session1.closed /\ Session1.releases = 1)

\* a call failed, then close() was called twice
C2_Witness ==
    /\ hubLast # None /\ hubLast.outcome.raised
    /\ closeCalls >= 2
    /\ Session1.releases = 1

C16_ZoneRequestItems ==
    (hubLast # None /\ hubLast.op = "get_zones") =>
        LET sent == RequestedNames(hubLast.request)
            m    == hubs[1].max_zones
        IN  /\ Len(sent) = 3 * m + 1
            /\ \A i \in 0..(m - 1) :
                  /\ sent[3 * i + 1] = "G" \o ToString(i) \o ".RaumTemp"
                  /\ sent[3 * i + 2] = "G" \o ToString(i) \o ".SollTemp"
                  /\ sent[3 * i + 3] = "G" \o ToString(i) \o ".name"
            /\ sent[3 * m + 1] = "R0.SystemStatus"
            /\ \A k \in 1..(3 * m) : sent[k] # "R0.SystemStatus"

\* a hub of two zones posted its seven items
C16_Witness ==
    /\ hubLast # None /\ hubLast.op = "get_zones"
    /\ hubs[1].max_zones = 2
    /\ RequestedNames(hubLast.request)
          = << "G0.RaumTemp", "G0.SollTemp", "G0.name",
               "G1.RaumTemp", "G1.SollTemp", "G1.name", "R0.SystemStatus" >>

-----------------------------------------------------------------------------
(* Codec under test: inputs drawn from bounded sets *)

PairNames == {None, Some("G0.name"), Some("G1.RaumTemp")}
PairValues == {None, Some("A"), Some("2050")}
Pairs == [name : PairNames, value : PairValues]
PairSeqs == UNION {[1..n -> Pairs] : n \in 0..MaxPairs}

\* the map holding every pair whose name and value text are both non-empty
RECURSIVE ExpectedMap(_)
ExpectedMap(pairs) ==
    IF pairs = <<>> THEN EmptyDict
    ELSE LET last == pairs[Len(pairs)]
             rest == ExpectedMap(SubSeq(pairs, 1, Len(pairs) - 1))
         IN  IF TruthyText(last.name) /\ TruthyText(last.value)
             THEN Put(rest, last.name.some, last.value.some)
             ELSE rest

CodecInit ==
    /\ codecIn \in PairSeqs
    /\ codecOut = None
    /\ mapperCall = None
    /\ device = [regs |-> EmptyDict, spelling |-> "short"]
    /\ deviceChanges = 0
    /\ now = 0
    /\ hubs = <<>>
    /\ HubClientUnused
    /\ EntryUnused

\* parse the same pairs in both spellings
ParseBothSpellings ==
    /\ codecOut = None
    /\ codecOut' = [long  |-> parse_values_response(ResponseDoc(codecIn, "long")),
                    short |-> parse_values_response(ResponseDoc(codecIn, "short"))]
    /\ UNCHANGED <<codecIn, mapperCall, device, deviceChanges, now, hubVars, entryVars>>

CodecNext == ParseBothSpellings

SpecCodec == CodecInit /\ [][CodecNext]_vars

\* C1: for any pairs, the long and the short spelling of a response parse to
\* the same map, the one holding every pair with non-empty name and value.
C1_SpellingsAgree ==
    codecOut # None =>
        /\ codecOut.long = codecOut.short
        /\ codecOut.short = ExpectedMap(codecIn)

\* the positions of the pairs whose name text and value text are both non-empty
Insertable(pairs) ==
    {i \in 1..Len(pairs) : TruthyText(pairs[i].name) /\ TruthyText(pairs[i].value)}

\* the result holds exactly the names of the insertable pairs, each with the
\* value of its last insertable occurrence in document order
HoldsInsertable(out, pairs) ==
    /\ DOMAIN out = {pairs[i].name.some : i \in Insertable(pairs)}
    /\ \A i \in Insertable(pairs) :
          (\A j \in Insertable(pairs) : pairs[j].name = pairs[i].name => j <= i)
              => out[pairs[i].name.some] = pairs[i].value.some

\* C21: parse_values_response inserts a pair exactly when its name text and
\* its value text are both non-empty, skips every other pair, and of several
\* pairs with one name keeps the value of the last one in document order;
\* this holds for a response in either spelling.
C21_InsertsNonEmptyPairs ==
    codecOut # None =>
        /\ HoldsInsertable(codecOut.short, codecIn)
        /\ HoldsInsertable(codecOut.long, codecIn)

-----------------------------------------------------------------------------
(* Mapper and request builder under test: inputs drawn from bounded sets *)

\* the items a request list is drawn from
RequestItems == {"G0.RaumTemp", "G1.name", "R0.SystemStatus", "a&b"}
ItemSeqs == UNION {[1..n -> RequestItems] : n \in 0..MaxItems}

\* d[k] = o.some unless o is None
PutOpt(d, k, o) == IF o = None THEN d ELSE Put(d, k, o.some)

\* a values map holding up to three registers of one zone
ZoneValues(zone_num_str, raum, soll, name) ==
    PutOpt(PutOpt(PutOpt(EmptyDict, Register(zone_num_str, "RaumTemp"), raum),
                  Register(zone_num_str, "SollTemp"), soll),
           Register(zone_num_str, "name"), name)

\* the raw texts a temperature register and a name register are drawn from
RawTemps == {None, Some("2050"), Some("2100"), Some("abc"), Some("20.5")}
RawNames == {None, Some("Office"), Some("")}

\* the registers of the zones 0..MaxZones, one more zone than any max_zones
\* of a hub, and the text each holds in a values map of the listing calls
ListedRegisters ==
    {Register(ToString(n), f) : n \in 0..MaxZones, f \in {"RaumTemp", "SollTemp", "name"}}
ListedNames == {"Room", ""}
ListedValues(keys, name) ==
    [r \in keys |-> IF r \in {Register(ToString(n), "name") : n \in 0..MaxZones}
                    THEN name ELSE "2050"]

MapperInit ==
    /\ codecIn = <<>>
    /\ codecOut = None
    /\ mapperCall = None
    /\ device = [regs |-> EmptyDict, spelling |-> "short"]
    /\ deviceChanges = 0
    /\ now \in 0..1
    /\ hubs = <<>>
    /\ HubClientUnused
    /\ EntryUnused

\* create_request_xml(items); the call returns the serialised document
CallCreateRequestXml ==
    /\ mapperCall = None
    /\ \E items \in ItemSeqs :
          mapperCall' = [fn |-> "create_request_xml", items |-> items,
                         tree |-> create_request_xml(items).root,
                         out |-> tostring(create_request_xml(items).root)]
    /\ UNCHANGED <<codecIn, codecOut, device, deviceChanges, now, hubVars, entryVars>>

\* extract_zone_data(values, zone_id)
CallExtractZoneData ==
    /\ mapperCall = None
    /\ \E n \in 0..(MaxZones - 1), raum \in RawTemps, soll \in RawTemps, name \in RawNames :
          LET values == ZoneValues(ToString(n), raum, soll, name)
          IN  mapperCall' = [fn |-> "extract_zone_data", values |-> values,
                             zone_id |-> ZoneId(n),
                             out |-> extract_zone_data(values, ZoneId(n), now)]
    /\ UNCHANGED <<codecIn, codecOut, device, deviceChanges, now, hubVars, entryVars>>

\* get_available_zones(values, max_zones)
CallGetAvailableZones ==
    /\ mapperCall = None
    /\ \E keys \in SUBSET ListedRegisters, name \in ListedNames,
          max_zones \in 0..(MaxZones + 1) :
          mapperCall' = [fn |-> "get_available_zones",
                         values |-> ListedValues(keys, name),
                         max_zones |-> max_zones,
                         out |-> get_available_zones(ListedValues(keys, name), max_zones)]
    /\ UNCHANGED <<codecIn, codecOut, device, deviceChanges, now, hubVars, entryVars>>

MapperNext == CallCreateRequestXml \/ CallExtractZoneData \/ CallGetAvailableZones

SpecMapper == MapperInit /\ [][MapperNext]_vars

\* the last mapper call was a call of fn
Called(fn) == mapperCall # None /\ mapperCall.fn = fn

RECURSIVE Balanced(_, _)
\* an XML reader's nesting check: every tag closes the innermost open one
Balanced(toks, stack) ==
    IF toks = <<>> THEN stack = <<>>
    ELSE LET h == Head(toks)
         IN  CASE h.t = "open"  -> Balanced(Tail(toks), <<h.s>> \o stack)
               [] h.t = "close" -> /\ stack # <<>>
                                   /\ Head(stack) = h.s
                                   /\ Balanced(Tail(toks), Tail(stack))
               [] OTHER         -> Balanced(Tail(toks), stack)

\* a token sequence is one well-formed document: balanced, with one root element
WellFormed(toks) ==
    /\ toks # <<>>
    /\ toks[1].t \in {"open", "empty"}
    /\ Balanced(toks, <<>>)
    /\ \A k \in 1..(Len(toks) - 1) : ~Balanced(SubSeq(toks, 1, k), <<>>)

\* the text an XML reader finds in each n element, in document order
NTexts(toks) ==
    LET at == SelectSeq([k \in 1..Len(toks) |-> k],
                        LAMBDA k : toks[k].s = "n" /\ toks[k].t \in {"open", "empty"})
    IN  [j \in 1..Len(at) |->
            IF toks[at[j]].t = "open" /\ toks[at[j] + 1].t = "text"
            THEN Some(Unescape(toks[at[j] + 1].s))
            ELSE None]

\* C12: for every list of items, create_request_xml yields a well-formed
\* document body/item_list with one i/n element per item, and the n texts
\* read back in document order are the list in its order; the empty list
\* yields a well-formed document with an empty item_list.
C12_RequestRoundTrip ==
    Called("create_request_xml") =>
        LET items == mapperCall.items
            root  == mapperCall.tree
            toks  == mapperCall.out
        IN  /\ WellFormed(toks)
            /\ root.tag = "body" /\ Len(root.kids) = 1
            /\ root.kids[1].tag = "item_list"
            /\ Len(root.kids[1].kids) = Len(items)
            /\ \A k \in 1..Len(items) :
                  /\ root.kids[1].kids[k].tag = "i"
                  /\ Len(root.kids[1].kids[k].kids) = 1
                  /\ root.kids[1].kids[k].kids[1].tag = "n"
            /\ NTexts(toks) = [k \in 1..Len(items) |-> Some(items[k])]
            /\ items = <<>> =>
                  toks = << [t |-> "open", s |-> "body"], [t |-> "empty", s |-> "item_list"],
                            [t |-> "close", s |-> "body"] >>

\* a list of three items with a repeated one was built and reads back as given
C12_Witness ==
    /\ Called("create_request_xml")
    /\ mapperCall.items = <<"G1.name", "G0.RaumTemp", "G1.name">>
    /\ NTexts(mapperCall.out) = <<Some("G1.name"), Some("G0.RaumTemp"), Some("G1.name")>>

\* the integer numerals among the raw texts, and n / 100 in thousandths of a
\* degree for the numeral n
IsIntegerNumeral(s) == s \in {"2050", "2100", "1900"}
Hundredth(s) == CASE s = "2050" -> 20500 [] s = "2100" -> 21000 [] s = "1900" -> 19000

\* the zone number, values and result of the last extract_zone_data call
CallZoneNum == ZoneNumStr(mapperCall.zone_id)
CallHas(field) == Register(CallZoneNum, field) \in DOMAIN mapperCall.values
CallRaw(field) == mapperCall.values[Register(CallZoneNum, field)]

\* C13: extract_zone_data is field-independent: a RaumTemp (or SollTemp) text
\* that is no number leaves that temperature alone absent, the other
\* temperature and the name are returned when present, and the call returns
\* the zone's record in every case.
C13_FieldIndependent ==
    Called("extract_zone_data") =>
        LET out == mapperCall.out
        IN  /\ out.id = mapperCall.zone_id
            /\ (CallHas("RaumTemp") /\ CallRaw("RaumTemp") = "abc")
                  => out.current_temperature = None
            /\ (CallHas("SollTemp") /\ CallRaw("SollTemp") = "abc")
                  => out.target_temperature = None
            /\ (CallHas("RaumTemp") /\ IsIntegerNumeral(CallRaw("RaumTemp")))
                  => out.current_temperature = Some(Hundredth(CallRaw("RaumTemp")))
            /\ (CallHas("SollTemp") /\ IsIntegerNumeral(CallRaw("SollTemp")))
                  => out.target_temperature = Some(Hundredth(CallRaw("SollTemp")))
            /\ (CallHas("name") /\ CallRaw("name") # "") => out.name = CallRaw("name")
            /\ out.timestamp = now

\* RaumTemp was "abc": the current temperature is absent, the target
\* temperature 21.0 and the name are returned
C13_Witness ==
    /\ Called("extract_zone_data")
    /\ CallHas("RaumTemp") /\ CallRaw("RaumTemp") = "abc"
    /\ mapperCall.out.current_temperature = None
    /\ mapperCall.out.target_temperature = Some(21000)
    /\ mapperCall.out.name = "Office"

\* C14: extract_zone_data parses RaumTemp and SollTemp as integers: a raw text
\* that is an integer numeral n gives the temperature n / 100 (2050 gives
\* 20.5, 2100 gives 21.0), and a raw text that is no integer numeral leaves
\* the temperature absent.
C14_IntegerParsing ==
    Called("extract_zone_data") =>
        LET out == mapperCall.out
            Expected(field) ==
                IF CallHas(field) /\ IsIntegerNumeral(CallRaw(field))
                THEN Some(Hundredth(CallRaw(field)))
                ELSE None
        IN  /\ out.current_temperature = Expected("RaumTemp")
            /\ out.target_temperature = Expected("SollTemp")

\* C15: get_available_zones(values, max_zones) returns, in ascending index
\* order and each once, exactly the zones G<i> with 0 <= i < max_zones for
\* which G<i>.RaumTemp, G<i>.SollTemp or G<i>.name is a key of values;
\* registers of an index >= max_zones produce no zone.
C15_ZonesListed ==
    Called("get_available_zones") =>
        LET out == mapperCall.out
            values == mapperCall.values
            HasRegister(i) ==
                \E f \in {"RaumTemp", "SollTemp", "name"} :
                    Register(ToString(i), f) \in DOMAIN values
        IN  /\ {out[k].number : k \in 1..Len(out)}
                  = {i \in 0..(mapperCall.max_zones - 1) : HasRegister(i)}
            /\ \A k \in 1..(Len(out) - 1) : out[k].number < out[k + 1].number
            /\ \A k \in 1..Len(out) : out[k].id = ZoneId(out[k].number)

\* max_zones = 3 and values holding G1.name alone: exactly the zone G1
C15_Witness ==
    /\ Called("get_available_zones")
    /\ mapperCall.max_zones = 3
    /\ DOMAIN mapperCall.values = {"G1.name"}
    /\ Len(mapperCall.out) = 1
    /\ mapperCall.out[1].id = "G1"

\* C22: extract_zone_data for zone G<i> returns the text of G<i>.name when the
\* register is present and non-empty and "Zone G<i>" otherwise;
\* get_available_zones returns for a listed zone G<i> the text of G<i>.name
\* when the register is present, empty or not, and "Zone <i>" otherwise.
C22_NameDefaults ==
    /\ Called("extract_zone_data") =>
           mapperCall.out.name =
               IF CallHas("name") /\ CallRaw("name") # ""
               THEN CallRaw("name") ELSE "Zone G" \o CallZoneNum
    /\ Called("get_available_zones") =>
           \A k \in 1..Len(mapperCall.out) :
               LET i == ToString(mapperCall.out[k].number)
               IN  mapperCall.out[k].name =
                       IF ("G" \o i \o ".name") \in DOMAIN mapperCall.values
                       THEN mapperCall.values["G" \o i \o ".name"]
                       ELSE "Zone " \o i

\* an empty G1.name and G0.RaumTemp alone: get_available_zones answers "" and "Zone 0"
C22_Witness ==
    /\ Called("get_available_zones")
    /\ DOMAIN mapperCall.values = {"G0.RaumTemp", "G1.name"}
    /\ mapperCall.values["G1.name"] = ""
    /\ Len(mapperCall.out) = 2
    /\ mapperCall.out[1].name = "Zone 0"
    /\ mapperCall.out[2].name = ""

-----------------------------------------------------------------------------
(* The config entry: set-up, refresh cycles, unload (__init__.py) *)

\* the data of a config entry: max_zones and an optional update_interval
\* (config_flow.STEP_USER_DATA_SCHEMA accepts 30..3600)
Entries ==
    [max_zones : 1..MaxZones, update_interval : {None, Some(60)}]

Init ==
    /\ CodecUnused
    /\ HubClientUnused
    /\ device \in Devices
    /\ deviceChanges = 0
    /\ now = 0
    /\ hubs = <<>>
    /\ entry \in Entries
    /\ entryState = "not_loaded"
    /\ hassData = None
    /\ services = FALSE
    /\ entities = {}
    /\ entityLast = None
    /\ coordinator = None
    /\ cycle = NoCycle
    /\ cycles = 0
    /\ flow = None

\* async_setup_entry up to `await hub.test_connection()`; the entry is set up
\* anew (retry, reload) once the cycle of its previous coordinator is over
SetupEntry ==
    /\ entry # None
    /\ entryState \in {"not_loaded", "not_ready", "unloaded"}
    /\ cycle.pc = "idle"
    /\ Len(hubs) < MaxHubs
    /\ hubs' = Append(hubs, NewHub(entry.max_zones))
    /\ entryState' = "setup_test"
    /\ UNCHANGED <<codecVars, flow, device, deviceChanges, now, hubLast, closeCalls, entry,
                   entities, entityLast, hassData,
                   services, coordinator, cycle, cycles>>

\* faulty variant: a test_connection that returned False aborts the set-up too
SetupTestConnection_requires_true ==
    /\ entryState = "setup_test"
    /\ \E resp \in Responses(TestConnectionRequest, device) :
          LET probe == test_connection(resp)
          IN  IF probe.raised \/ ~probe.value
              THEN /\ entryState' = "not_ready"
                   /\ cycle' = [cycle EXCEPT !.probe = probe]
                   /\ UNCHANGED <<coordinator, now>>
              ELSE /\ entryState' = "first_refresh"
                   /\ coordinator' = NewCoordinator(Len(hubs))
                   /\ cycle' = [StartCycle(None, TRUE) EXCEPT !.probe = probe]
                   /\ now' = now + 1
    /\ UNCHANGED <<codecVars, flow, device, deviceChanges, hubVars, entry, entities, entityLast,
                   hassData, services, cycles>>

\* async_setup_entry resumed with the outcome of test_connection: raise
\* ConfigEntryNotReady, or create the coordinator and start its first refresh;
\* the cycle record notes what test_connection ended in
SetupTestConnection ==
    /\ entryState = "setup_test"
    /\ \E resp \in Responses(TestConnectionRequest, device) :
          LET probe == test_connection(resp)
          IN  IF probe.raised
              THEN /\ entryState' = "not_ready"
                   /\ cycle' = [cycle EXCEPT !.probe = probe]
                   /\ UNCHANGED <<coordinator, now>>
              ELSE /\ entryState' = "first_refresh"
                   /\ coordinator' = NewCoordinator(Len(hubs))
                   /\ cycle' = [StartCycle(None, TRUE) EXCEPT !.probe = probe]
                   /\ now' = now + 1
    /\ UNCHANGED <<codecVars, flow, device, deviceChanges, hubVars, entry, entities, entityLast,
                   hassData, services, cycles>>

\* faulty variant: the timer is not armed again after a failed update
CycleStart_only_after_success ==
    /\ entryState = "loaded"
    /\ cycle.pc = "idle"
    /\ coordinator.last_update_success
    /\ cycles < MaxCycles
    /\ cycles' = cycles + 1
    /\ now' = now + 1
    /\ cycle' = StartCycle(coordinator.data, FALSE)
    /\ UNCHANGED <<codecVars, flow, device, deviceChanges, hubVars, entry, entities, entityLast,
                   entryState, hassData, services, coordinator>>

\* the update-interval timer fires while the entry is loaded and no cycle runs
CycleStart ==
    /\ entryState = "loaded"
    /\ cycle.pc = "idle"
    /\ cycles < MaxCycles
    /\ cycles' = cycles + 1
    /\ now' = now + 1
    /\ cycle' = StartCycle(coordinator.data, FALSE)
    /\ UNCHANGED <<codecVars, flow, device, deviceChanges, hubVars, entry, entities, entityLast,
                   entryState, hassData,
                   services, coordinator>>

\* a step of the cycle left it in cy: either it awaits the next request, or
\* _async_update_data is over and the coordinator and the set-up go on
Settle(cy) ==
    IF cy.ret = None
    THEN /\ cycle' = cy
         /\ UNCHANGED <<coordinator, entryState, hassData, services, entities>>
    ELSE /\ coordinator' = Refreshed(coordinator, cy.ret)
         /\ cycle' = [cy EXCEPT !.pc = "idle",
                                !.result = IF cy.ret.raised THEN cy.ret.exc ELSE "success",
                                !.published = ~cy.ret.raised,
                                !.log = IF cy.ret.raised THEN @
                                        ELSE Append(@, [ev |-> "publish", op |-> ""])]
         /\ IF ~cy.first
            THEN UNCHANGED <<entryState, hassData, services, entities>>
            ELSE IF cy.ret.raised
            THEN \* async_config_entry_first_refresh raises ConfigEntryNotReady
                 /\ entryState' = "not_ready"
                 /\ UNCHANGED <<hassData, services, entities>>
            ELSE \* hass.data, the platforms (one climate entity for each zone
                 \* of the first snapshot) and async_setup_services
                 /\ entryState' = "loaded"
                 /\ hassData' = [hub |-> coordinator.hub]
                 /\ entities' = DOMAIN cy.ret.value
                 /\ services' = TRUE

\* the cycle goes on with what its get_zones request ended in
ZonesAnswered(resp) ==
    Settle(update_after_get_zones(
              [cycle EXCEPT !.zonesResp = resp,
                            !.log = Append(@, [ev |-> "recv", op |-> "get_zones"])],
              get_zones(hubs[coordinator.hub], resp)))

\* the cycle goes on with what its get_zone_data request for zones[idx] ended in
ZoneDataAnswered(resp) ==
    LET zone_id == cycle.zones[cycle.idx].id
        outcome == get_zone_data(zone_id, resp, now)
    IN  Settle(update_after_get_zone_data(
                  [cycle EXCEPT !.fetchResp = Append(@, resp),
                                !.fetched = Append(@, outcome),
                                !.log = Append(@, [ev |-> "recv", op |-> zone_id])],
                  outcome))

\* the get_zones request of the cycle ends
CycleGetZones ==
    /\ cycle.pc = "get_zones"
    /\ \E resp \in Responses(GetZonesRequest(hubs[coordinator.hub]), device) :
          ZonesAnswered(resp)
    /\ UNCHANGED <<codecVars, flow, device, deviceChanges, now, hubVars, entry, entityLast, cycles>>

\* the get_zone_data request for zones[idx] ends
CycleGetZoneData ==
    /\ cycle.pc = "get_zone_data"
    /\ \E resp \in Responses(GetZoneDataRequest(cycle.zones[cycle.idx].id), device) :
          ZoneDataAnswered(resp)
    /\ UNCHANGED <<codecVars, flow, device, deviceChanges, now, hubVars, entry, entityLast, cycles>>

\* async_unload_entry: the services go, and the entry leaves hass.data when
\* the platforms unload
UnloadEntry ==
    /\ entryState = "loaded"
    /\ services' = FALSE
    /\ \E unload_ok \in BOOLEAN :
          IF unload_ok
          THEN hassData' = None /\ entryState' = "unloaded" /\ entities' = {}
          ELSE UNCHANGED <<hassData, entryState, entities>>
    /\ UNCHANGED <<codecVars, flow, device, deviceChanges, now, hubVars, entry, entityLast,
                   coordinator, cycle, cycles>>

Next ==
    \/ SetupEntry
    \/ SetupTestConnection
    \/ CycleStart
    \/ CycleGetZones
    \/ CycleGetZoneData
    \/ UnloadEntry

Spec == Init /\ [][Next]_vars

-----------------------------------------------------------------------------
(* The entry with its climate entities: service calls arrive while the     *)
(* entry is loaded; one entry of MaxZones zones and one controller         *)

\* the controller whose zones G0 and G1 both answer
Controller1 ==
    CHOOSE d \in Devices : d.spelling = "short" /\ "G0.name" \in DOMAIN d.regs

EntityInit ==
    /\ Init
    /\ entry = [max_zones |-> MaxZones, update_interval |-> None]
    /\ device = Controller1

\* RothTouchlineClimate.async_set_temperature of the entity of a zone
EntitySetTemperature ==
    /\ entryState = "loaded"
    /\ \E zone_id \in entities, temperature \in {None, Some(21)} :
          LET success == temperature # None /\ set_temperature(zone_id, temperature.some)
          IN  /\ entityLast' = [op |-> "set_temperature", zone_id |-> zone_id,
                                refresh |-> success, running |-> cycle.pc # "idle"]
              /\ cycle' = IF success THEN async_request_refresh(cycle, coordinator.data)
                          ELSE cycle
    /\ UNCHANGED <<codecVars, flow, device, deviceChanges, now, hubVars, entry, entryState,
                   hassData, services, entities, coordinator, cycles>>

\* RothTouchlineClimate.async_set_hvac_mode of the entity of a zone; the mode
\* is one of HVAC_MODES_ROTH or one that table does not hold (None)
EntitySetHvacMode ==
    /\ entryState = "loaded"
    /\ \E zone_id \in entities, roth_mode \in {None, Some(1)} :
          LET success == roth_mode # None /\ set_hvac_mode(zone_id, roth_mode.some)
          IN  /\ entityLast' = [op |-> "set_hvac_mode", zone_id |-> zone_id,
                                refresh |-> success, running |-> cycle.pc # "idle"]
              /\ cycle' = IF success THEN async_request_refresh(cycle, coordinator.data)
                          ELSE cycle
    /\ UNCHANGED <<codecVars, flow, device, deviceChanges, now, hubVars, entry, entryState,
                   hassData, services, entities, coordinator, cycles>>

EntityNext ==
    \/ Next
    \/ EntitySetTemperature
    \/ EntitySetHvacMode

SpecEntity == EntityInit /\ [][EntityNext]_vars

-----------------------------------------------------------------------------
(* The entry polling a controller whose registers change during a cycle *)

DriftInit ==
    /\ Init
    /\ entry = [max_zones |-> MaxZones, update_interval |-> None]
    /\ device.spelling = "short"

\* the controller's registers change while a cycle is running
DeviceChange ==
    /\ cycle.pc # "idle"
    /\ deviceChanges < MaxDeviceChanges
    /\ deviceChanges' = deviceChanges + 1
    /\ \E regs \in DeviceRegs \ {device.regs} :
          /\ device' = [device EXCEPT !.regs = regs]
          /\ cycle' = [cycle EXCEPT !.devs = @ \cup {regs}]
    /\ UNCHANGED <<codecVars, flow, now, hubVars, entry, entryState, hassData, services,
                   entities, entityLast, coordinator, cycles>>

DriftNext ==
    \/ Next
    \/ DeviceChange

SpecDrift == DriftInit /\ [][DriftNext]_vars

-----------------------------------------------------------------------------
(* The entry polling a controller that may answer with bytes that are no   *)
(* text: an exception other than the two the hub handles is raised         *)

FaultInit ==
    /\ Init
    /\ entry = [max_zones |-> MaxZones, update_interval |-> None]
    /\ device.spelling = "short"

\* the get_zones request is answered 200 with an undecodable body
CycleGetZonesUndecodable ==
    /\ cycle.pc = "get_zones"
    /\ ZonesAnswered(Undecodable)
    /\ UNCHANGED <<codecVars, flow, device, deviceChanges, now, hubVars, entry, entityLast, cycles>>

\* the get_zone_data request for zones[idx] is answered 200 with an undecodable body
CycleGetZoneDataUndecodable ==
    /\ cycle.pc = "get_zone_data"
    /\ ZoneDataAnswered(Undecodable)
    /\ UNCHANGED <<codecVars, flow, device, deviceChanges, now, hubVars, entry, entityLast, cycles>>

FaultNext ==
    \/ Next
    \/ CycleGetZonesUndecodable
    \/ CycleGetZoneDataUndecodable

SpecFault == FaultInit /\ [][FaultNext]_vars

-----------------------------------------------------------------------------
(* The config flow creates the entry, which is then set up (config_flow.py) *)

FlowInit ==
    /\ CodecUnused
    /\ HubClientUnused
    /\ EntryUnused
    /\ device \in Devices
    /\ deviceChanges = 0
    /\ now = 0
    /\ hubs = <<>>

\* async_step_user with the user's input: validate_input creates a hub of
\* its own and awaits its test_connection; one submission is followed
ValidateInputStart ==
    /\ flow = None
    /\ entry = None
    /\ \E data \in Entries :
          flow' = [data |-> data, hub |-> NewHub(HubDefaultMaxZones),
                   pc |-> "test_connection", result |-> None]
    /\ UNCHANGED <<codecVars, device, deviceChanges, now, hubVars, entry, entryState,
                   hassData, services, entities, entityLast, coordinator, cycle, cycles>>

\* validate_input resumed with the outcome of test_connection: it raises
\* CannotConnect or returns the title, and async_step_user shows the form
\* again with an error or creates the entry from the input
ValidateInputEnd ==
    /\ flow # None /\ flow.pc = "test_connection"
    /\ \E resp \in Responses(TestConnectionRequest, device) :
          IF test_connection(resp).raised
          THEN /\ flow' = [flow EXCEPT !.pc = "done", !.result = Raise("CannotConnect")]
               /\ UNCHANGED entry
          ELSE /\ flow' = [flow EXCEPT !.pc = "done", !.result = Return("Roth Touchline")]
               /\ entry' = flow.data
    /\ UNCHANGED <<codecVars, device, deviceChanges, now, hubVars, entryState,
                   hassData, services, entities, entityLast, coordinator, cycle, cycles>>

FlowNext ==
    \/ ValidateInputStart
    \/ ValidateInputEnd
    \/ Next

SpecFlow == FlowInit /\ [][FlowNext]_vars

\* the ids of the listed zones of the cycle whose get_zone_data returned a value
ZonesWithValue ==
    {cycle.zones[k].id : k \in {j \in 1..Len(cycle.fetched) :
                                    ~cycle.fetched[j].raised /\ cycle.fetched[j].value # None}}

\* C3: once the entry is unloaded, the session of the hub created for it is
\* released, and no refresh cycle starts for it.
C3_UnloadReleasesSession ==
    entryState = "unloaded" =>
        /\ hubs[coordinator.hub].session.closed
        /\ ~ENABLED CycleStart

\* C4: the coordinator polls at the update_interval of the entry's
\* configuration, and at 30 seconds only when the configuration gives none.
C4_IntervalFromConfig ==
    coordinator # None =>
        coordinator.update_interval =
            IF entry.update_interval = None THEN DEFAULT_UPDATE_INTERVAL
            ELSE entry.update_interval.some

\* C5: the snapshot a cycle publishes holds exactly the listed zones whose
\* get_zone_data returned a value; a zone whose fetch returned None is no key
\* of it, neither with the previous snapshot's record nor with a null value.
C5_SnapshotExactlyFetched ==
    cycle.published =>
        /\ DOMAIN coordinator.data = ZonesWithValue
        /\ \A z \in DOMAIN coordinator.data : coordinator.data[z] # None

\* two zones listed, G0 was in the previous snapshot and its fetch returned
\* None, G1 was fetched: the published snapshot holds G1 alone
C5_Witness ==
    /\ cycle.published
    /\ Len(cycle.zones) = 2
    /\ cycle.fetched[1] = Return(None)
    /\ cycle.before # None /\ "G0" \in DOMAIN cycle.before
    /\ DOMAIN coordinator.data = {"G1"}

\* C6: a cycle whose get_zones ended in a timeout or transport failure ends
\* as UpdateFailed, publishes nothing, and leaves the coordinator's snapshot
\* what it was before the cycle.
C6_ZonesFailureKeepsSnapshot ==
    (cycle.pc = "idle" /\ cycle.zonesResp # None /\ Unreachable(cycle.zonesResp)) =>
        /\ cycle.result = "UpdateFailed"
        /\ ~cycle.published
        /\ coordinator.data = cycle.before
        /\ ~coordinator.last_update_success

\* get_zones timed out while a non-empty snapshot was visible: it still is
C6_Witness ==
    /\ cycle.pc = "idle" /\ cycle.zonesResp # None /\ cycle.zonesResp.kind = "timeout"
    /\ cycle.before # None /\ DOMAIN cycle.before # {}
    /\ coordinator.data = cycle.before
    /\ cycle.result = "UpdateFailed"

\* the positions of the cycle's log holding an event of a kind
LogPositions(ev) == {i \in 1..Len(cycle.log) : cycle.log[i].ev = ev}

\* C7: in a cycle get_zones completes before the first get_zone_data is
\* issued, every request completes before the next is issued, and the
\* snapshot is published last, after the get_zone_data of every listed zone
\* completed; until then the coordinator holds the untouched previous
\* snapshot, and from then on the complete new one.
C7_OrderedAtomicPublish ==
    coordinator # None =>
        /\ \A i \in LogPositions("send") :
              IF cycle.log[i].op = "get_zones" THEN i = 1
              ELSE /\ cycle.log[2] = [ev |-> "recv", op |-> "get_zones"]
                   /\ cycle.log[i - 1].ev = "recv"
        /\ \A i \in LogPositions("publish") :
              /\ i = Len(cycle.log)
              /\ Cardinality(LogPositions("recv")) = 1 + Len(cycle.zones)
              /\ Cardinality(LogPositions("send")) = 1 + Len(cycle.zones)
        /\ cycle.published <=> LogPositions("publish") # {}
        /\ IF cycle.published
           THEN coordinator.data = cycle.data /\ DOMAIN cycle.data = ZonesWithValue
           ELSE coordinator.data = cycle.before

\* a cycle over two zones replaced a non-empty snapshot by a different one,
\* publishing after both zones were fetched
C7_Witness ==
    /\ cycle.published
    /\ Len(cycle.zones) = 2
    /\ Len(cycle.log) = 7
    /\ cycle.before # None /\ DOMAIN cycle.before # {}
    /\ coordinator.data # cycle.before

\* C8: get_zone_data returns None, and does not raise, on a status other than
\* 200, on a timeout and on a transport failure; so a cycle fails only
\* through get_zones, and a cycle that publishes has fetched every listed zone.
C8_ZoneFailureDoesNotAbort ==
    /\ \A k \in 1..Len(cycle.fetchResp) :
          (NonOK(cycle.fetchResp[k]) \/ Unreachable(cycle.fetchResp[k]))
              => cycle.fetched[k] = Return(None)
    /\ cycle.result = "UpdateFailed" => cycle.fetchResp = <<>>
    /\ cycle.published => Len(cycle.fetched) = Len(cycle.zones)

\* the fetch of the first zone timed out, the second zone was still fetched
\* and published
C8_Witness ==
    /\ cycle.published
    /\ Len(cycle.zones) = 2
    /\ cycle.fetchResp[1].kind = "timeout"
    /\ cycle.fetched[2].value # None
    /\ DOMAIN coordinator.data = {cycle.zones[2].id}

\* the POST was answered 200 with a body that is not XML
MalformedOK(resp) == resp.kind = "http" /\ resp.status = StatusOK /\ ~resp.body.wf

\* C11: a body that is not XML parses to the empty map and nothing is
\* raised: get_zones then lists no zone and the cycle publishes, a zone
\* fetched with such a body still yields its record, and a cycle fails only
\* when get_zones could not reach the device.
C11_MalformedBodyNoFailure ==
    /\ (cycle.zonesResp # None /\ MalformedOK(cycle.zonesResp)) =>
          /\ parse_values_response(cycle.zonesResp.body) = EmptyDict
          /\ cycle.zones = <<>>
          /\ cycle.pc = "idle"
          /\ cycle.result = "success"
          /\ coordinator.data = EmptyDict
    /\ \A k \in 1..Len(cycle.fetchResp) :
          MalformedOK(cycle.fetchResp[k]) =>
              /\ parse_values_response(cycle.fetchResp[k].body) = EmptyDict
              /\ ~cycle.fetched[k].raised
              /\ cycle.fetched[k].value # None
              /\ cycle.fetched[k].value.current_temperature = None
              /\ cycle.fetched[k].value.target_temperature = None
    /\ cycle.result = "UpdateFailed" => Unreachable(cycle.zonesResp)

\* a timer-driven cycle whose get_zones body was not XML replaced a non-empty
\* snapshot by the empty one, without failing
C11_Witness ==
    /\ cycle.zonesResp # None /\ MalformedOK(cycle.zonesResp)
    /\ cycle.before # None /\ DOMAIN cycle.before # {}
    /\ cycle.published
    /\ coordinator.last_update_success
    /\ coordinator.data = EmptyDict

\* the POST was answered 200 with a well-formed body
AnsweredOK(resp) == resp.kind = "http" /\ resp.status = StatusOK /\ resp.body.wf

CycleRegisters ==
    (IF cycle.zonesResp # None /\ AnsweredOK(cycle.zonesResp)
     THEN DOMAIN parse_values_response(cycle.zonesResp.body) ELSE {})
    \cup UNION {DOMAIN parse_values_response(cycle.fetchResp[k].body) :
                   k \in {j \in 1..Len(cycle.fetchResp) : AnsweredOK(cycle.fetchResp[j])}}

\* C19: every zone of a published snapshot was present in its cycle: one of
\* its registers RaumTemp, SollTemp, name is among the values parsed from the
\* device's answers in that cycle.
C19_PublishedZonesPresent ==
    cycle.published =>
        \A z \in DOMAIN coordinator.data :
            \E f \in {"RaumTemp", "SollTemp", "name"} :
                Register(ZoneNumStr(z), f) \in CycleRegisters

\* a zone listed by get_zones whose own fetch was answered with a body that
\* is not XML is published, with no temperature
C19_Witness ==
    /\ cycle.published
    /\ Len(cycle.zones) = 2
    /\ MalformedOK(cycle.fetchResp[2])
    /\ "G1" \in DOMAIN coordinator.data
    /\ coordinator.data["G1"].current_temperature = None
    /\ "G1.name" \in CycleRegisters

\* the record get_zone_data returns for a zone when the controller's
\* registers are regs
ZoneRecordFrom(regs, zone_id, clock) ==
    extract_zone_data(
        parse_values_response(
            DeviceAnswer(GetZoneDataRequest(zone_id),
                         [regs |-> regs, spelling |-> device.spelling])),
        zone_id, clock)

\* C20: the snapshot a cycle publishes is internally consistent: there is one
\* register state of the controller, among those it was in during the cycle,
\* from which every zone record the controller answered comes.
C20_SnapshotFromOneState ==
    cycle.published =>
        \E regs \in cycle.devs :
            \A k \in 1..Len(cycle.fetchResp) :
                AnsweredOK(cycle.fetchResp[k]) =>
                    coordinator.data[cycle.zones[k].id]
                        = ZoneRecordFrom(regs, cycle.zones[k].id,
                                         coordinator.data[cycle.zones[k].id].timestamp)

\* values holds none of the registers get_available_zones looks for
NoZoneRegisters(values, max_zones) ==
    \A n \in 0..(max_zones - 1), f \in {"RaumTemp", "SollTemp", "name"} :
        Register(ToString(n), f) \notin DOMAIN values

\* the get_zones request was answered, but with a status other than 200 or
\* with a body holding no zone register
SoftFailure(resp, max_zones) ==
    /\ resp.kind = "http"
    /\ \/ resp.status # StatusOK
       \/ NoZoneRegisters(parse_values_response(resp.body), max_zones)

\* C23: a cycle whose get_zones was answered with a status other than 200, or
\* with a body that parses to no zone register, ends as a success and
\* publishes the empty snapshot, whatever the snapshot before it held.
C23_SoftFailureEmptiesSnapshot ==
    (/\ cycle.pc = "idle" /\ cycle.zonesResp # None
     /\ SoftFailure(cycle.zonesResp, hubs[coordinator.hub].max_zones)) =>
        /\ cycle.result = "success"
        /\ cycle.published
        /\ cycle.fetchResp = <<>>
        /\ coordinator.last_update_success
        /\ coordinator.data = EmptyDict

\* get_zones was answered 500 while a non-empty snapshot was visible: the
\* cycle succeeded and the known zones are gone
C23_Witness ==
    /\ cycle.pc = "idle" /\ cycle.zonesResp # None
    /\ NonOK(cycle.zonesResp)
    /\ cycle.before # None /\ DOMAIN cycle.before # {}
    /\ cycle.result = "success"
    /\ coordinator.data = EmptyDict

\* C24: the record a cycle publishes for a zone is the one built from that
\* zone's own get_zone_data response; when that response has status 200 and
\* holds none of the zone's registers, the zone is still in the snapshot,
\* named "Zone G<i>" and with both temperatures absent, whatever the
\* get_zones response held for it.
C24_RecordFromOwnResponse ==
    cycle.published =>
        \A k \in 1..Len(cycle.fetchResp) :
            LET resp == cycle.fetchResp[k]
                zone == cycle.zones[k]
                values == parse_values_response(resp.body)
            IN  (resp.kind = "http" /\ resp.status = StatusOK) =>
                    /\ zone.id \in DOMAIN coordinator.data
                    /\ coordinator.data[zone.id]
                          = extract_zone_data(values, zone.id,
                                              coordinator.data[zone.id].timestamp)
                    /\ (\A f \in {"RaumTemp", "SollTemp", "name"} :
                            Register(ToString(zone.number), f) \notin DOMAIN values) =>
                           /\ coordinator.data[zone.id].name = "Zone G" \o ToString(zone.number)
                           /\ coordinator.data[zone.id].current_temperature = None
                           /\ coordinator.data[zone.id].target_temperature = None

\* get_zones listed G0 under the controller's name "Office"; the zone's own
\* fetch was answered 200 without a register, and the snapshot holds the zone
\* as "Zone G0"
C24_Witness ==
    /\ cycle.published
    /\ Len(cycle.zones) >= 1 /\ cycle.zones[1].name = "Office"
    /\ MalformedOK(cycle.fetchResp[1])
    /\ "G0" \in DOMAIN coordinator.data
    /\ coordinator.data["G0"].name = "Zone G0"
    /\ coordinator.data["G0"].current_temperature = None
    /\ coordinator.data["G0"].target_temperature = None

\* an exception was raised inside the cycle, by get_zones or by a get_zone_data
RaisedInCycle ==
    \/ cycle.zonesResp # None /\ get_zones(hubs[coordinator.hub], cycle.zonesResp).raised
    \/ \E k \in 1..Len(cycle.fetched) : cycle.fetched[k].raised

\* C25: whatever get_zones or a get_zone_data call raises inside a cycle, the
\* types get_zone_data does not handle included, the cycle ends as
\* UpdateFailed at once: nothing is published, the coordinator's snapshot
\* stays what it was and the zones the cycle had fetched are dropped; no
\* exception but UpdateFailed leaves _async_update_data.
C25_EveryExceptionIsUpdateFailed ==
    /\ (cycle.ret # None /\ cycle.ret.raised) => cycle.ret.exc = "UpdateFailed"
    /\ RaisedInCycle =>
          /\ cycle.pc = "idle"
          /\ cycle.result = "UpdateFailed"
          /\ ~cycle.published
          /\ ~coordinator.last_update_success
          /\ coordinator.data = cycle.before
          /\ \A k \in 1..Len(cycle.fetched) : cycle.fetched[k].raised => k = Len(cycle.fetched)

\* the fetch of the second zone raised UnicodeDecodeError after the first
\* zone had been fetched: the cycle failed and the first zone's new record
\* is in no snapshot
C25_Witness ==
    /\ Len(cycle.fetched) = 2
    /\ cycle.fetched[2] = Raise("UnicodeDecodeError")
    /\ DOMAIN cycle.data = {"G0"}
    /\ cycle.result = "UpdateFailed"
    /\ cycle.before # None /\ coordinator.data = cycle.before
    /\ "G0" \in DOMAIN coordinator.data
    /\ coordinator.data["G0"] # cycle.data["G0"]

\* the positions of the cycle's log at which a get_zone_data request is issued
ZoneSends == {i \in LogPositions("send") : cycle.log[i].op # "get_zones"}

\* what a cycle has issued so far: one get_zones request, first, and after
\* it at most one get_zone_data request for each listed zone, so at most
\* max_zones of them; a cycle that is over has returned or raised UpdateFailed
CycleRequestsBounded ==
    cycle.log # <<>> =>
        /\ {i \in LogPositions("send") : cycle.log[i].op = "get_zones"} = {1}
        /\ \A i \in ZoneSends : \E k \in 1..Len(cycle.zones) : cycle.zones[k].id = cycle.log[i].op
        /\ \A i, j \in ZoneSends : cycle.log[i].op = cycle.log[j].op => i = j
        /\ Cardinality(ZoneSends) <= Len(cycle.zones)
        /\ Len(cycle.zones) <= hubs[coordinator.hub].max_zones
        /\ cycle.pc = "idle" =>
              /\ cycle.ret # None
              /\ cycle.ret.raised => cycle.ret.exc = "UpdateFailed"
              /\ ~cycle.ret.raised => cycle.published

\* the number of requests a running cycle may still have to await: the
\* pending one and one for each zone after the current one
Remaining(cy) ==
    CASE cy.pc = "idle" -> 0
      [] cy.pc = "get_zones" -> hubs[coordinator.hub].max_zones + 1
      [] cy.pc = "get_zone_data" -> Len(cy.zones) - cy.idx + 1

\* a step of a running cycle is the end of its pending request, and leaves
\* fewer requests to await than before
CycleProgress ==
    (cycle.pc # "idle" /\ cycle' # cycle) =>
        /\ Len(cycle'.log) > Len(cycle.log)
        /\ Remaining(cycle') < Remaining(cycle)

\* C26: every refresh cycle terminates, each request ending within its
\* timeout: it issues exactly one get_zones request, then at most one
\* get_zone_data request per listed zone, at most max_zones in all; the end
\* of each request leaves fewer requests to await, and after at most
\* max_zones + 1 of them the cycle is over, having returned a snapshot or
\* raised UpdateFailed.
C26_CycleTerminates ==
    /\ [](CycleRequestsBounded /\ Remaining(cycle) \in 0..(MaxZones + 1))
    /\ [][CycleProgress]_vars

\* a cycle that listed MaxZones zones is over after one get_zones and
\* MaxZones get_zone_data requests
C26_Witness ==
    /\ cycle.pc = "idle"
    /\ cycle.ret # None
    /\ Len(cycle.zones) = MaxZones
    /\ Cardinality(ZoneSends) = MaxZones
    /\ Cardinality(LogPositions("send")) = MaxZones + 1

C27_UnstoredHubsClosed ==
    /\ (flow # None /\ flow.pc = "done") => flow.hub.session.closed
    /\ entryState = "not_ready" => hubs[Len(hubs)].session.closed

\* C28: the integration's services are registered whenever the entry is
\* loaded, that is, in hass.data; an unload whose platform unload fails
\* leaves the entry there, and the services registered.
C28_ServicesWhileLoaded ==
    hassData # None => services

====
